---------------------------- MODULE Spec2Model ----------------------------
(***************************************************************************)
(* Model of tensornetwork/contractors/opt_einsum_paths/utils.py: the       *)
(* copy-node helpers of the opt_einsum path contractors.                   *)
(*                                                                         *)
(* A network is a set of live nodes; every node has an ordered list of     *)
(* axis slots, each holding a reference to one Edge object.  Edge objects  *)
(* are modelled by their identity (an index into the sequence edge_obj of  *)
(* all Edge objects ever created) so that two distinct objects with equal  *)
(* fields stay distinct, as they do for Python's `is` and for dictionaries *)
(* keyed by edges.  Axes are numbered from 1 here (Python axis k is axis   *)
(* k+1 of the model); axis 0 stands for "no axis" on the empty side of a   *)
(* dangling edge.                                                          *)
(***************************************************************************)
EXTENDS Integers, Sequences, FiniteSets, TLC

VARIABLES
  nodes_set,   \* net.nodes_set: the live nodes
  edges,       \* node.edges for every node: the sequence of edge ids of its axis slots
  edge_obj,    \* the Edge objects: edge_obj[e] = [node1, axis1, node2, axis2]
  disabled,    \* the nodes on which disable() was called
  ret,         \* what the last call returned (or the exception it raised)
  poisoned     \* TRUE once a call has raised: the network is not used any further

vars == <<nodes_set, edges, edge_obj, disabled, ret, poisoned>>

None == "None"

\* The node objects that exist in a run.  x, y, z are ordinary nodes, a and b
\* are CopyNodes, c is the CopyNode isolate_copy_node creates; f1.. are the
\* nodes add_node creates for merge results.
Ordinary == {"x", "y", "z"}
NewCopy == "c"
CopyNodes == {"a", "b", NewCopy}
Fused == <<"f1", "f2", "f3">>
AllNodes == Ordinary \cup CopyNodes \cup {Fused[i] : i \in DOMAIN Fused}

IsCopy(n) == n \in CopyNodes

\* The largest number of connected (non-dangling) edges of an initial network.
MaxConn == 4

-----------------------------------------------------------------------------
(* Small helpers on sequences and sets. *)

Range(s) == {s[i] : i \in DOMAIN s}

RECURSIVE SetToSeq(_)
SetToSeq(S) ==
  IF S = {} THEN <<>>
  ELSE LET m == CHOOSE v \in S : \A w \in S : v <= w
       IN <<m>> \o SetToSeq(S \ {m})

\* All the orders in which a (small) set can be iterated.
RECURSIVE Orders(_)
Orders(S) ==
  IF S = {} THEN {<<>>}
  ELSE UNION {{<<v>> \o o : o \in Orders(S \ {v})} : v \in S}

\* The distinct elements of s, in the order of their first occurrence.
RECURSIVE Dedup(_)
Dedup(s) ==
  IF s = <<>> THEN <<>>
  ELSE LET r == Dedup(SubSeq(s, 1, Len(s) - 1))
       IN IF s[Len(s)] \in Range(r) THEN r ELSE Append(r, s[Len(s)])

-----------------------------------------------------------------------------
(* The network primitives used by utils.py (tensornetwork.network and      *)
(* tensornetwork.network_components).  A network value is the record       *)
(* [nodes_set, edges, edge_obj, disabled].                                 *)

Net == [nodes_set |-> nodes_set, edges |-> edges,
        edge_obj |-> edge_obj, disabled |-> disabled]

EmptyNet == [nodes_set |-> {}, edges |-> [n \in AllNodes |-> <<>>],
             edge_obj |-> <<>>, disabled |-> {}]

\* edge.is_dangling()
IsDangling(net, e) == net.edge_obj[e].node2 = None

DanglingEdge(n, axis) == [node1 |-> n, axis1 |-> axis, node2 |-> None, axis2 |-> 0]

\* net.add_node(tensor) / net.add_node(CopyNode(rank=..)): a node of the given
\* rank with one fresh dangling edge per axis.
AddNode(net, n, rank) ==
  LET base == Len(net.edge_obj)
  IN [net EXCEPT
        !.nodes_set = @ \cup {n},
        !.edges[n] = [i \in 1..rank |-> base + i],
        !.edge_obj = @ \o [i \in 1..rank |-> DanglingEdge(n, i)]]

\* node.add_edge(edge, axis, override=True): the slot now holds `e`.
AddEdge(net, n, e, axis) == [net EXCEPT !.edges[n][axis] = e]

\* net.disconnect(edge): two fresh dangling edges, the first on the endpoint
\* edge.node1/axis1 and the second on edge.node2/axis2, each installed in its
\* node's slot.  The old Edge object is left as it is.
Disconnect(net, e) ==
  LET r == net.edge_obj[e]
      e1 == Len(net.edge_obj) + 1
      e2 == Len(net.edge_obj) + 2
      n0 == [net EXCEPT !.edge_obj = @ \o <<DanglingEdge(r.node1, r.axis1),
                                            DanglingEdge(r.node2, r.axis2)>>]
  IN IF r.node2 = None
     THEN [raised |-> "ValueError", net |-> net, e1 |-> 0, e2 |-> 0]
     ELSE [raised |-> "",
           net |-> AddEdge(AddEdge(n0, r.node1, e1, r.axis1), r.node2, e2, r.axis2),
           e1 |-> e1, e2 |-> e2]

\* edge1 ^ edge2 (net.connect): both must be dangling; one fresh edge with
\* edge1's endpoint as node1/axis1 and edge2's endpoint as node2/axis2 replaces
\* them in both slots.
Connect(net, ea, eb) ==
  LET ra == net.edge_obj[ea]
      rb == net.edge_obj[eb]
      e == Len(net.edge_obj) + 1
      n0 == [net EXCEPT !.edge_obj = Append(@, [node1 |-> ra.node1, axis1 |-> ra.axis1,
                                               node2 |-> rb.node1, axis2 |-> rb.axis1])]
  IN IF ea = eb \/ ra.node2 # None \/ rb.node2 # None
     THEN [raised |-> "ValueError", net |-> net, e |-> 0]
     ELSE [raised |-> "",
           net |-> AddEdge(AddEdge(n0, ra.node1, e, ra.axis1), rb.node1, e, rb.axis1),
           e |-> e]

\* edge.update_axis(old_axis, old_node, new_axis, new_node): the endpoint of the
\* edge that is (old_node, old_axis) becomes (new_node, new_axis); an edge with
\* no such endpoint is an error.
UpdateAxis(net, e, old_node, old_axis, new_axis, new_node) ==
  LET r == net.edge_obj[e]
  IN IF r.axis1 = old_axis /\ r.node1 = old_node
     THEN [raised |-> "",
           net |-> [net EXCEPT !.edge_obj[e].node1 = new_node,
                               !.edge_obj[e].axis1 = new_axis]]
     ELSE IF r.axis2 = old_axis /\ r.node2 = old_node
     THEN [raised |-> "",
           net |-> [net EXCEPT !.edge_obj[e].node2 = new_node,
                               !.edge_obj[e].axis2 = new_axis]]
     ELSE [raised |-> "ValueError", net |-> net]

\* net.remove_node(node): every non-dangling edge in a slot of the node is
\* disconnected; broken[axis] is the fresh dangling edge left on
\* the partner.  The node leaves the node set and is disabled.
RECURSIVE RemoveNodeLoop(_, _, _, _)
RemoveNodeLoop(net, n, i, broken) ==
  IF i > Len(net.edges[n])
  THEN [net |-> [net EXCEPT !.nodes_set = @ \ {n}, !.disabled = @ \cup {n}],
        broken |-> broken]
  ELSE LET e == net.edges[n][i]
           r == net.edge_obj[e]
       IN IF r.node2 = None
          THEN RemoveNodeLoop(net, n, i + 1, broken)
          ELSE LET d == Disconnect(net, e)
                   other == IF d.net.edge_obj[d.e1].node1 # n THEN d.e1 ELSE d.e2
               IN RemoveNodeLoop(d.net, n, i + 1, broken @@ (i :> other))

RemoveNode(net, n) == RemoveNodeLoop(net, n, 1, <<>>)

\* net.get_all_edges(): the edges held in the slots of the live nodes.
GetAllEdges(net) == UNION {Range(net.edges[n]) : n \in net.nodes_set}

\* net.get_all_nondangling()
GetAllNondangling(net) == {e \in GetAllEdges(net) : ~IsDangling(net, e)}


\* The other endpoint's node of edge record r, seen from node n.
OtherNode(r, n) == IF r.node1 = n THEN r.node2 ELSE r.node1

\* node1 @ node2 (net.contract_between), the ordinary pair contraction: walking
\* node1's axes in order each axis gets a label, reused on node2's matching
\* axis when the axis's edge is shared with node2 and put in the output
\* otherwise; then node2's axes, fresh labels for the surviving ones.  The
\* surviving edges are rewired onto the new node, node1 and node2 are removed
\* and disabled.
RECURSIVE RewirePlain(_, _, _, _)
RewirePlain(net, plan, i, new_node) ==
  IF i > Len(plan) THEN net
  ELSE LET u == UpdateAxis(net, plan[i][1], plan[i][2], plan[i][3], i, new_node)
       IN RewirePlain(AddEdge(u.net, new_node, plan[i][1], i), plan, i + 1, new_node)

ContractBetween(net, node1, node2, new_node) ==
  LET e1 == net.edges[node1]
      e2 == net.edges[node2]
      IsShared(e) == {net.edge_obj[e].node1, net.edge_obj[e].node2} = {node1, node2}
      AxisOn(e, n) == IF net.edge_obj[e].node1 = n THEN net.edge_obj[e].axis1
                      ELSE net.edge_obj[e].axis2
      surv1 == SelectSeq([i \in 1..Len(e1) |-> i], LAMBDA i : ~IsShared(e1[i]))
      surv2 == SelectSeq([j \in 1..Len(e2) |-> j], LAMBDA j : ~IsShared(e2[j]))
      \* label of node2's axis j: that of node1's axis holding the same edge,
      \* or the next fresh label
      Fresh2(j) == Len(e1) + Cardinality({k \in 1..j : ~IsShared(e2[k])})
      Label2(j) == IF IsShared(e2[j])
                   THEN CHOOSE i \in 1..Len(e1) : e1[i] = e2[j]
                   ELSE Fresh2(j)
      plan == [k \in 1..Len(surv1) |-> <<e1[surv1[k]], node1, AxisOn(e1[surv1[k]], node1)>>]
              \o [k \in 1..Len(surv2) |-> <<e2[surv2[k]], node2, AxisOn(e2[surv2[k]], node2)>>]
      n0 == AddNode(net, new_node, Len(plan))
      n1 == RewirePlain(n0, plan, 1, new_node)
  IN [raised |-> "",
      net |-> [n1 EXCEPT !.nodes_set = @ \ {node1, node2},
                         !.disabled = @ \cup {node1, node2}],
      node1_expr |-> [i \in 1..Len(e1) |-> i],
      node2_expr |-> [j \in 1..Len(e2) |-> Label2(j)],
      output_expr |-> [k \in 1..Len(surv1) |-> surv1[k]]
                      \o [k \in 1..Len(surv2) |-> Fresh2(surv2[k])],
      output_edges |-> plan,
      new_node |-> new_node]

-----------------------------------------------------------------------------
(* utils.py *)

\* find_copy_nodes(net), with `order` the order in which the loop over
\* net.nodes_set meets the copy nodes.
RECURSIVE FindCopyEdges(_, _, _, _, _)
FindCopyEdges(net, copy, i, representative_edge, acc) ==
  IF i > Len(net.edges[copy]) THEN acc
  ELSE LET edge == net.edges[copy][i]
           r == net.edge_obj[edge]
       IN IF IsDangling(net, edge)
          THEN FindCopyEdges(net, copy, i + 1, representative_edge, acc)
          ELSE LET rep == IF representative_edge = 0 THEN edge ELSE representative_edge
                   node == IF r.node2 = copy THEN r.node1 ELSE r.node2
               IN FindCopyEdges(net, copy, i + 1, rep,
                    [edge_map |-> (edge :> rep) @@ acc.edge_map,
                     copy_neighbors |-> [acc.copy_neighbors EXCEPT ![copy] = @ \cup {node}]])

RECURSIVE FindCopyNodesLoop(_, _, _, _)
FindCopyNodesLoop(net, order, k, acc) ==
  IF k > Len(order) THEN acc
  ELSE FindCopyNodesLoop(net, order, k + 1,
         FindCopyEdges(net, order[k], 1, 0,
           [acc EXCEPT !.copy_neighbors = (order[k] :> {}) @@ @]))

FindCopyNodes(net, order) ==
  FindCopyNodesLoop(net, order, 1, [edge_map |-> <<>>, copy_neighbors |-> <<>>])

\* find_copy_neighbors(net, node)
FindCopyNeighbors(net, node) ==
  {c \in CopyNodes :
     \E i \in DOMAIN net.edges[node] :
        LET r == net.edge_obj[net.edges[node][i]]
        IN r.node2 # None /\ (IF r.node1 = node THEN r.node2 ELSE r.node1) = c}

\* DisconnectCopyEdge with the bug of returning the pair as net.disconnect
\* gives it.
DisconnectCopyEdgeNoSwap(net, edge, node) ==
  LET d == Disconnect(net, edge)
  IN IF d.raised # "" THEN [raised |-> d.raised, net |-> net, edge_node |-> 0, edge_copy |-> 0]
     ELSE [raised |-> "", net |-> d.net, edge_node |-> d.e1, edge_copy |-> d.e2]

\* disconnect_copy_edge(net, edge, node)
DisconnectCopyEdge(net, edge, node) ==
  LET d == Disconnect(net, edge)
  IN IF d.raised # "" THEN [raised |-> d.raised, net |-> net, edge_node |-> 0, edge_copy |-> 0]
     ELSE IF d.net.edge_obj[d.e1].node1 # node
     THEN IF d.net.edge_obj[d.e2].node1 # node
          THEN [raised |-> "AssertionError", net |-> d.net, edge_node |-> 0, edge_copy |-> 0]
          ELSE [raised |-> "", net |-> d.net, edge_node |-> d.e2, edge_copy |-> d.e1]
     ELSE [raised |-> "", net |-> d.net, edge_node |-> d.e1, edge_copy |-> d.e2]

\* GetPath with the bug of not taking the connected edges out of output_set.
GetPathAllEdges(net, sorted_nodes, edge_map) ==
  [input_sets |-> [k \in DOMAIN sorted_nodes |-> Range(net.edges[sorted_nodes[k]])],
   output_set |-> GetAllEdges(net),
   size_dict |-> GetAllEdges(net)]

\* get_path(net, algorithm, sorted_nodes, edge_map): the arguments the
\* optimizer is called with.  edge_map = <<>> stands for None (and for {}).
GetPath(net, sorted_nodes, edge_map) ==
  LET Img(e) == IF e \in DOMAIN edge_map THEN edge_map[e] ELSE e
      input_sets == IF edge_map # <<>>
                    THEN [k \in DOMAIN sorted_nodes |->
                            {Img(e) : e \in Range(net.edges[sorted_nodes[k]])}]
                    ELSE [k \in DOMAIN sorted_nodes |-> Range(net.edges[sorted_nodes[k]])]
      output_set == GetAllEdges(net) \ GetAllNondangling(net)
  IN [input_sets |-> input_sets, output_set |-> output_set,
      size_dict |-> GetAllEdges(net)]

-----------------------------------------------------------------------------
(* contract_between_with_copies(net, node1, node2, shared_copies).  The    *)
(* local state of a call is the record                                     *)
(*   [net, raised, shared_copies, chars, edge_char, node1_expr,            *)
(*    node2_expr, output_expr, output_edges, new_node]                     *)
(* where chars counts the labels taken from _VALID_SUBSCRIPTS so far (the  *)
(* k-th character of the alphabet is the label k) and output_edges is the  *)
(* list of triples <<edge, old_node, old_axis>>.                           *)

Call0(net, shared_copies) ==
  [net |-> net, raised |-> "", shared_copies |-> shared_copies, chars |-> 0,
   edge_char |-> <<>>, node1_expr |-> <<>>, node2_expr |-> <<>>,
   output_expr |-> <<>>, output_edges |-> <<>>, new_node |-> None]

\* Line 130: broken_edges[0] ^ broken_edges[1], on what remove_node returned.
ConnectBroken(st, rn) ==
  IF {1, 2} \subseteq DOMAIN rn.broken
  THEN LET c == Connect(rn.net, rn.broken[1], rn.broken[2])
       IN [st EXCEPT !.net = c.net, !.raised = c.raised]
  ELSE [st EXCEPT !.net = rn.net, !.raised = "KeyError"]

\* TrivializeCopy with the bug of not reconnecting the two partner edges.
TrivializeCopyNoConnect(st, copy) ==
  LET rn == RemoveNode(st.net, copy)
  IN [st EXCEPT !.shared_copies = @ \ {copy}, !.net = rn.net]

\* Lines 127-130: a copy node with two edges is removed and its two partner
\* edges are connected to each other.
TrivializeCopy(st, copy) ==
  ConnectBroken([st EXCEPT !.shared_copies = @ \ {copy}], RemoveNode(st.net, copy))

\* Lines 126-133: the loop over set(shared_copies), met in the order `order`.
RECURSIVE TrivializeLoop(_, _, _)
TrivializeLoop(st, order, k) ==
  IF k > Len(order) \/ st.raised # "" THEN st
  ELSE LET copy == order[k]
       IN IF Len(st.net.edges[copy]) = 2
          THEN TrivializeLoop(TrivializeCopy(st, copy), order, k + 1)
          ELSE IF Len(st.net.edges[copy]) # 3
          THEN [st EXCEPT !.raised = "NotImplementedError"]
          ELSE TrivializeLoop(st, order, k + 1)

\* Lines 163-170: the copy edge with record r goes to node1 or to node2 and
\* d is what net.disconnect(copy_edge) gave; the half left on node2 takes the
\* label char.
CopyEdgeCut(st, node1, node2, r, d, char) ==
  IF node1 \in {r.node1, r.node2}
  THEN [st EXCEPT !.net = d.net, !.raised = d.raised]
  ELSE IF node2 = r.node1
  THEN [st EXCEPT !.net = d.net, !.raised = d.raised,
                  !.edge_char = (d.e1 :> char) @@ @]
  ELSE [st EXCEPT !.net = d.net, !.raised = d.raised,
                  !.edge_char = (d.e2 :> char) @@ @]

\* Lines 162-176: one edge of the snapshot set(neighbor.edges) of a shared
\* copy node met on node1's axis old_axis, which has the label char.
CopyEdgeStep(st, node1, node2, neighbor, copy_edge, old_axis, char) ==
  LET r == st.net.edge_obj[copy_edge]
  IN IF node1 \in {r.node1, r.node2} \/ node2 \in {r.node1, r.node2}
     THEN CopyEdgeCut(st, node1, node2, r, Disconnect(st.net, copy_edge), char)
     ELSE [st EXCEPT !.output_expr = Append(@, char),
                     !.output_edges = Append(@, <<copy_edge, neighbor, old_axis>>)]

RECURSIVE CopyEdgeLoop(_, _, _, _, _, _, _, _)
CopyEdgeLoop(st, node1, node2, neighbor, snapshot, j, old_axis, char) ==
  IF j > Len(snapshot) \/ st.raised # "" THEN st
  ELSE CopyEdgeLoop(CopyEdgeStep(st, node1, node2, neighbor, snapshot[j], old_axis, char),
                    node1, node2, neighbor, snapshot, j + 1, old_axis, char)

\* Lines 144-180: one round of the loop over node1.edges, on the edge that
\* slot i of node1 holds when the loop gets there.
Node1Step(st, node1, node2, i) ==
  LET edge == st.net.edges[node1][i]
      r == st.net.edge_obj[edge]
      char == st.chars + 1
      st1 == [st EXCEPT !.chars = char, !.node1_expr = Append(@, char)]
      old_axis == IF r.node1 = node1 THEN r.axis1 ELSE r.axis2
      neighbor == IF r.node1 = node1 THEN r.node2 ELSE r.node1
  IN IF r.node1 # node1 /\ r.node2 # node1
     THEN [st1 EXCEPT !.raised = "AssertionError"]
     ELSE IF neighbor = node2
     THEN [st1 EXCEPT !.edge_char = (edge :> char) @@ @]
     ELSE IF neighbor \in st1.shared_copies
     THEN CopyEdgeLoop(st1, node1, node2, neighbor,
                       Dedup(st1.net.edges[neighbor]), 1, old_axis, char)
     ELSE [st1 EXCEPT !.output_expr = Append(@, char),
                      !.output_edges = Append(@, <<edge, node1, old_axis>>)]

RECURSIVE Node1Loop(_, _, _, _)
Node1Loop(st, node1, node2, i) ==
  IF i > Len(st.net.edges[node1]) \/ st.raised # "" THEN st
  ELSE Node1Loop(Node1Step(st, node1, node2, i), node1, node2, i + 1)

\* Node2Step with the bug of putting node2's surviving axis in front of the
\* output instead of at its end.
Node2StepFront(st, node2, i) ==
  LET edge == st.net.edges[node2][i]
      r == st.net.edge_obj[edge]
      char == st.chars + 1
      old_axis == IF r.node1 = node2 THEN r.axis1 ELSE r.axis2
  IN IF edge \in DOMAIN st.edge_char
     THEN [st EXCEPT !.node2_expr = Append(@, st.edge_char[edge])]
     ELSE [st EXCEPT !.chars = char,
                     !.node2_expr = Append(@, char),
                     !.output_expr = <<char>> \o @,
                     !.output_edges = <<<<edge, node2, old_axis>>>> \o @]

\* Lines 183-191: one round of the loop over node2.edges.
Node2Step(st, node2, i) ==
  LET edge == st.net.edges[node2][i]
      r == st.net.edge_obj[edge]
      char == st.chars + 1
      old_axis == IF r.node1 = node2 THEN r.axis1 ELSE r.axis2
  IN IF edge \in DOMAIN st.edge_char
     THEN [st EXCEPT !.node2_expr = Append(@, st.edge_char[edge])]
     ELSE [st EXCEPT !.chars = char,
                     !.node2_expr = Append(@, char),
                     !.output_expr = Append(@, char),
                     !.output_edges = Append(@, <<edge, node2, old_axis>>)]

RECURSIVE Node2Loop(_, _, _)
Node2Loop(st, node2, i) ==
  IF i > Len(st.net.edges[node2]) \/ st.raised # "" THEN st
  ELSE Node2Loop(Node2Step(st, node2, i), node2, i + 1)

\* RewireStep with the bug of installing the edge in the slot of new_node
\* without moving the edge's endpoint.
RewireStepNoUpdate(st, new_axis) ==
  LET edge == st.output_edges[new_axis][1]
      old_node == st.output_edges[new_axis][2]
      n1 == AddEdge(st.net, st.new_node, edge, new_axis)
  IN IF old_node \in st.shared_copies
     THEN [st EXCEPT !.shared_copies = @ \ {old_node},
                     !.net = RemoveNode(n1, old_node).net]
     ELSE [st EXCEPT !.net = n1]

\* Lines 199-207: one triple of output_edges, for the axis new_axis of new_node.
RewireStep(st, new_axis) ==
  LET edge == st.output_edges[new_axis][1]
      old_node == st.output_edges[new_axis][2]
      old_axis == st.output_edges[new_axis][3]
      u == UpdateAxis(st.net, edge, old_node, old_axis, new_axis, st.new_node)
      n1 == AddEdge(u.net, st.new_node, edge, new_axis)
  IN IF u.raised # ""
     THEN [st EXCEPT !.raised = u.raised]
     ELSE IF old_node \in st.shared_copies
     THEN [st EXCEPT !.shared_copies = @ \ {old_node},
                     !.net = RemoveNode(n1, old_node).net]
     ELSE [st EXCEPT !.net = n1]

RECURSIVE RewireLoop(_, _)
RewireLoop(st, new_axis) ==
  IF new_axis > Len(st.output_edges) \/ st.raised # "" THEN st
  ELSE RewireLoop(RewireStep(st, new_axis), new_axis + 1)

\* Finish with the bug of leaving node1 in the network.
FinishKeepNode1(st, node1, node2) ==
  IF st.raised # "" THEN st
  ELSE [st EXCEPT !.net.nodes_set = @ \ {node2},
                  !.net.disabled = @ \cup {node2}]

\* Lines 209-213.
Finish(st, node1, node2) ==
  IF st.raised # "" THEN st
  ELSE [st EXCEPT !.net.nodes_set = @ \ {node1, node2},
                  !.net.disabled = @ \cup {node1, node2}]

\* Lines 193-196: new_node = net.add_node(new_tensor), one axis per output label.
AddNewNode(st, new_node) ==
  IF st.raised # "" THEN st
  ELSE [st EXCEPT !.net = AddNode(@, new_node, Len(st.output_expr)),
                  !.new_node = new_node]

\* Lines 137-213: the einsum expression, the new node and the rewiring.
ContractWithCopies(st, node1, node2, new_node) ==
  Finish(RewireLoop(AddNewNode(Node2Loop(Node1Loop(st, node1, node2, 1), node2, 1),
                               new_node), 1),
         node1, node2)

\* Lines 134-135: return node1 @ node2; c is what the plain contraction gave.
ReturnPlain(t, c) ==
  [t EXCEPT !.net = c.net, !.raised = c.raised,
            !.node1_expr = c.node1_expr, !.node2_expr = c.node2_expr,
            !.output_expr = c.output_expr,
            !.output_edges = c.output_edges, !.new_node = c.new_node]

\* Lines 134-213: the call after the loop over set(shared_copies).
ContractTrivialized(t, node1, node2, new_node) ==
  IF t.raised # "" THEN t
  ELSE IF t.shared_copies = {}
  THEN ReturnPlain(t, ContractBetween(t.net, node1, node2, new_node))
  ELSE ContractWithCopies(t, node1, node2, new_node)

\* The whole call; `order` is the iteration order of set(shared_copies) and
\* new_node the identity of the node add_node creates.
ContractBetweenWithCopies(net, node1, node2, shared_copies, order, new_node) ==
  IF node1 = node2
  THEN [Call0(net, shared_copies) EXCEPT !.raised = "NotImplementedError"]
  ELSE ContractTrivialized(TrivializeLoop(Call0(net, shared_copies), order, 1),
                            node1, node2, new_node)

-----------------------------------------------------------------------------
(* The initial networks: what a caller has built with add_node and ^       *)
(* before it asks for a contraction.  Nodes x and y are always there, z,   *)
(* a and b may be; every network is connected and has no trace edge (the   *)
(* contractors check the first and contract trace edges beforehand).       *)

NodeOrder == <<"x", "y", "z", "a", "b">>
Ranks == [x |-> {2}, y |-> {2}, z |-> {1}, a |-> {2, 3, 4}, b |-> {2}]

\* The shapes: which nodes exist, and the rank of each.
Shapes ==
  {sh \in UNION {[P -> 1..4] : P \in SUBSET Range(NodeOrder)} :
     /\ {"x", "y"} \subseteq DOMAIN sh
     /\ ("b" \in DOMAIN sh => "a" \in DOMAIN sh)
     /\ \A n \in DOMAIN sh : sh[n] \in Ranks[n]}

RECURSIVE AddNodes(_, _, _)
AddNodes(net, sh, k) ==
  IF k > Len(NodeOrder) THEN net
  ELSE IF NodeOrder[k] \in DOMAIN sh
       THEN AddNodes(AddNode(net, NodeOrder[k], sh[NodeOrder[k]]), sh, k + 1)
       ELSE AddNodes(net, sh, k + 1)

\* The sets of at most k pairs <<s, t>>, s < t, of dangling edges (slots) of S
\* on different nodes, no slot used twice.
RECURSIVE Matchings(_, _, _)
Matchings(net, S, k) ==
  IF k = 0 \/ S = {} THEN {{}}
  ELSE LET s == CHOOSE v \in S : \A w \in S : v <= w
       IN Matchings(net, S \ {s}, k)
          \cup UNION {{{<<s, t>>} \cup m : m \in Matchings(net, S \ {s, t}, k - 1)} :
                        t \in {u \in S \ {s} :
                                 net.edge_obj[u].node1 # net.edge_obj[s].node1}}

\* The pairs are connected in the order of their first slot.  Which side of ^
\* each edge stood on is fixed by the parity of s + t, so that both
\* orientations of an edge occur among the networks.
RECURSIVE ConnectAll(_, _)
ConnectAll(net, m) ==
  IF m = {} THEN net
  ELSE LET p == CHOOSE q \in m : \A w \in m : q[1] <= w[1]
           c == IF (p[1] + p[2]) % 2 = 0
                THEN Connect(net, net.edges[net.edge_obj[p[1]].node1][net.edge_obj[p[1]].axis1],
                                  net.edges[net.edge_obj[p[2]].node1][net.edge_obj[p[2]].axis1])
                ELSE Connect(net, net.edges[net.edge_obj[p[2]].node1][net.edge_obj[p[2]].axis1],
                                  net.edges[net.edge_obj[p[1]].node1][net.edge_obj[p[1]].axis1])
       IN ConnectAll(c.net, m \ {p})

Neighbours(net, n) ==
  {m \in net.nodes_set :
     \E i \in DOMAIN net.edges[n] :
        LET r == net.edge_obj[net.edges[n][i]]
        IN r.node2 # None /\ {r.node1, r.node2} = {n, m}}

RECURSIVE Reach(_, _)
Reach(net, R) ==
  LET R2 == R \cup UNION {Neighbours(net, n) : n \in R}
  IN IF R2 = R THEN R ELSE Reach(net, R2)

IsConnected(net) == Reach(net, {"x"}) = net.nodes_set

InitialNetworks ==
  UNION {LET n0 == AddNodes(EmptyNet, sh, 1)
         IN {n \in {ConnectAll(n0, m) : m \in Matchings(n0, 1..Len(n0.edge_obj), MaxConn)} :
               IsConnected(n)} : sh \in Shapes}

Init ==
  /\ \E n \in InitialNetworks :
       /\ nodes_set = n.nodes_set
       /\ edges = n.edges
       /\ edge_obj = n.edge_obj
       /\ disabled = n.disabled
  /\ ret = [op |-> "none"]
  /\ poisoned = FALSE

-----------------------------------------------------------------------------
(* The contraction driver's loop: one pair of the path after the other.    *)

NonCopy(S) == {n \in S : ~IsCopy(n)}

\* The identity of the next node add_node creates.
NextFused(net) ==
  Fused[CHOOSE i \in DOMAIN Fused :
          /\ Fused[i] \notin net.nodes_set \cup net.disabled
          /\ \A j \in 1..(i - 1) : Fused[j] \in net.nodes_set \cup net.disabled]

SetNet(n) ==
  /\ nodes_set' = n.nodes_set
  /\ edges' = n.edges
  /\ edge_obj' = n.edge_obj
  /\ disabled' = n.disabled

\* The call contract_between_with_copies(net, node1, node2, shared_copies)
\* has ended as c: the network is as the call left it (the call works in
\* place) and ret keeps what it was given and what it built.
Called(c, node1, node2, shared_copies) ==
  /\ SetNet(c.net)
  /\ ret' = [op |-> "contract", node1 |-> node1, node2 |-> node2,
             shared_copies |-> shared_copies, before |-> Net,
             raised |-> c.raised, new_node |-> c.new_node,
             node1_expr |-> c.node1_expr, node2_expr |-> c.node2_expr,
             output_expr |-> c.output_expr, output_edges |-> c.output_edges,
             left_copies |-> c.shared_copies]
  /\ poisoned' = (c.raised # "")

\* One step of the path: contract_between_with_copies on two live non-copy
\* nodes, with shared_copies the copy nodes next to both.
Contract(node1, node2) ==
  /\ ~poisoned
  /\ node1 # node2
  /\ {node1, node2} \subseteq NonCopy(nodes_set)
  /\ LET shared_copies == FindCopyNeighbors(Net, node1) \cap FindCopyNeighbors(Net, node2)
     IN \E order \in Orders(shared_copies) :
          Called(ContractBetweenWithCopies(Net, node1, node2, shared_copies, order,
                                           NextFused(Net)),
                 node1, node2, shared_copies)

Next == \E node1, node2 \in AllNodes : Contract(node1, node2)

Spec == Init /\ [][Next]_vars

-----------------------------------------------------------------------------
(* The path-optimizer adapter: find_copy_nodes, then get_path.             *)

\* find_copy_nodes(net); the loop over net.nodes_set meets the copy nodes in
\* any order.
FindCopyNodesCall ==
  /\ ret.op \in {"none", "find_copy_nodes"}
  /\ \E order \in Orders({c \in nodes_set : IsCopy(c)}) :
       LET f == FindCopyNodes(Net, order)
       IN ret' = [op |-> "find_copy_nodes", edge_map |-> f.edge_map,
                  copy_neighbors |-> f.copy_neighbors]
  /\ UNCHANGED <<nodes_set, edges, edge_obj, disabled, poisoned>>

\* The list of nodes handed to get_path: the live ordinary nodes, in a fixed order.
SortedNodes(net) == SelectSeq(NodeOrder, LAMBDA n : n \in NonCopy(net.nodes_set))

\* get_path(net, algorithm, sorted_nodes) or, after find_copy_nodes,
\* get_path(net, algorithm, sorted_nodes, edge_map).
GetPathCall ==
  /\ ret.op \in {"none", "find_copy_nodes"}
  /\ \E edge_map \in {<<>>} \cup (IF ret.op = "find_copy_nodes" THEN {ret.edge_map} ELSE {}) :
       LET g == GetPath(Net, SortedNodes(Net), edge_map)
       IN ret' = [op |-> "get_path", edge_map |-> edge_map,
                  input_sets |-> g.input_sets, output_set |-> g.output_set,
                  size_dict |-> g.size_dict]
  /\ UNCHANGED <<nodes_set, edges, edge_obj, disabled, poisoned>>

NextPath == FindCopyNodesCall \/ GetPathCall

SpecPath == Init /\ [][NextPath]_vars

-----------------------------------------------------------------------------
(* The helpers that edit the network around a copy node.                   *)

\* disconnect_copy_edge(net, edge, node) on a connected edge of a freshly
\* built network, `node` being the node of either endpoint.
DisconnectCopyEdgeCall(edge, node) ==
  /\ ret.op = "none"
  /\ edge \in GetAllNondangling(Net)
  /\ node \in {edge_obj[edge].node1, edge_obj[edge].node2}
  /\ LET d == DisconnectCopyEdge(Net, edge, node)
     IN /\ SetNet(d.net)
        /\ ret' = [op |-> "disconnect_copy_edge", edge |-> edge, node |-> node,
                   before |-> Net, raised |-> d.raised,
                   edge_node |-> d.edge_node, edge_copy |-> d.edge_copy]
        /\ poisoned' = (d.raised # "")

NextEdit ==
  \E edge \in DOMAIN edge_obj, node \in AllNodes : DisconnectCopyEdgeCall(edge, node)

SpecEdit == Init /\ [][NextEdit]_vars

-----------------------------------------------------------------------------
(* isolate_copy_node(net, copy, node1, node2).  The local state of a call   *)
(* is the record [net, raised].                                             *)

\* copy.remove_edge(edge): the slot of node n that holds e is taken out of
\* n.edges, the later axes of n move down by one and the rank of n drops by
\* one (utils_test.py asserts cn.rank == 2 after the call on a rank-3 node).
RemoveEdge(net, n, e) ==
  IF e \notin Range(net.edges[n])
  THEN [raised |-> "ValueError", net |-> net]
  ELSE LET i == CHOOSE k \in DOMAIN net.edges[n] : net.edges[n][k] = e
           Moved(r) == [r EXCEPT
                          !.axis1 = IF r.node1 = n /\ @ > i THEN @ - 1 ELSE @,
                          !.axis2 = IF r.node2 = n /\ @ > i THEN @ - 1 ELSE @]
       IN [raised |-> "",
           net |-> [net EXCEPT
                      !.edges[n] = SubSeq(@, 1, i - 1) \o SubSeq(@, i + 1, Len(@)),
                      !.edge_obj = [k \in DOMAIN @ |->
                                      IF k \in Range(net.edges[n]) \ {e}
                                      THEN Moved(@[k]) ELSE @[k]]]]

\* The edges of copy that have node on one endpoint (lines 96-97).
EdgesTo(net, copy, node) ==
  {e \in Range(net.edges[copy]) : node \in {net.edge_obj[e].node1, net.edge_obj[e].node2}}

\* a ^ b inside the call: the call's state after the connection.
Joined(st, c) == [st EXCEPT !.net = c.net, !.raised = c.raised]

\* Lines 103-107, after disconnect_copy_edge gave d: new_copy[0] takes the
\* copy's half when it is still dangling, else the half is removed from the
\* copy; then node_edge ^ new_copy[i + 1].
Isolate1Cut(st, copy, new_copy, d, i) ==
  IF d.raised # "" THEN [st EXCEPT !.raised = d.raised]
  ELSE LET first == IF IsDangling(d.net, d.net.edges[new_copy][1])
                    THEN Connect(d.net, d.net.edges[new_copy][1], d.edge_copy)
                    ELSE RemoveEdge(d.net, copy, d.edge_copy)
       IN IF first.raised # "" THEN [st EXCEPT !.net = first.net, !.raised = first.raised]
          ELSE Joined(st, Connect(first.net, d.edge_node, first.net.edges[new_copy][i + 1]))

\* Lines 102-107: the loop over enumerate(edges1), met in the order order1.
RECURSIVE Isolate1Loop(_, _, _, _, _, _)
Isolate1Loop(st, copy, node1, new_copy, order1, i) ==
  IF i > Len(order1) \/ st.raised # "" THEN st
  ELSE Isolate1Loop(
         Isolate1Cut(st, copy, new_copy, DisconnectCopyEdge(st.net, order1[i], node1), i),
         copy, node1, new_copy, order1, i + 1)

\* Lines 109-111, after disconnect_copy_edge gave d: the copy's half is
\* removed from the copy and node_edge ^ new_copy[i + len(edges1) + 1].
Isolate2Cut(st, copy, new_copy, d, axis) ==
  IF d.raised # "" THEN [st EXCEPT !.raised = d.raised]
  ELSE LET rm == RemoveEdge(d.net, copy, d.edge_copy)
       IN IF rm.raised # "" THEN [st EXCEPT !.net = rm.net, !.raised = rm.raised]
          ELSE Joined(st, Connect(rm.net, d.edge_node, rm.net.edges[new_copy][axis]))

\* Lines 108-111: the loop over enumerate(edges2), met in the order order2.
RECURSIVE Isolate2Loop(_, _, _, _, _, _, _)
Isolate2Loop(st, copy, node2, new_copy, order2, len1, i) ==
  IF i > Len(order2) \/ st.raised # "" THEN st
  ELSE Isolate2Loop(
         Isolate2Cut(st, copy, new_copy, DisconnectCopyEdge(st.net, order2[i], node2),
                     i + len1 + 1),
         copy, node2, new_copy, order2, len1, i + 1)

\* isolate_copy_node(net, copy, node1, node2); order1 and order2 are the
\* iteration orders of the sets edges1 and edges2, new_copy the identity of
\* the CopyNode add_node creates.  Axis k of the code is axis k + 1 here.
IsolateCopyNode(net, copy, node1, node2, order1, order2, new_copy) ==
  Isolate2Loop(
    Isolate1Loop([net |-> AddNode(net, new_copy, Len(order1) + Len(order2) + 1),
                  raised |-> ""],
                 copy, node1, new_copy, order1, 1),
    copy, node2, new_copy, order2, Len(order1), 1)

\* The call has ended as c.
Isolated(c, copy, node1, node2) ==
  /\ SetNet(c.net)
  /\ ret' = [op |-> "isolate_copy_node", copy |-> copy, node1 |-> node1,
             node2 |-> node2, before |-> Net, raised |-> c.raised,
             new_copy |-> NewCopy]
  /\ poisoned' = (c.raised # "")

\* isolate_copy_node(net, copy, node1, node2) on a freshly built network, for
\* a copy node and two other distinct nodes of it.
IsolateCopyNodeCall(copy, node1, node2) ==
  /\ ret.op = "none"
  /\ copy \in nodes_set /\ IsCopy(copy)
  /\ {node1, node2} \subseteq nodes_set \ {copy}
  /\ node1 # node2
  /\ \E order1 \in Orders(EdgesTo(Net, copy, node1)) :
       \E order2 \in Orders(EdgesTo(Net, copy, node2)) :
         Isolated(IsolateCopyNode(Net, copy, node1, node2, order1, order2, NewCopy),
                  copy, node1, node2)

NextIsolate ==
  \E copy, node1, node2 \in AllNodes : IsolateCopyNodeCall(copy, node1, node2)

SpecIsolate == Init /\ [][NextIsolate]_vars

-----------------------------------------------------------------------------
(* Vocabulary of the properties.                                           *)

\* The last call was contract_between_with_copies and it returned.
Returned == ret.op = "contract" /\ ret.raised = ""

\* The two endpoints <<node, axis>> of an edge record (one for a dangling edge).
Endpoints(r) ==
  {<<r.node1, r.axis1>>} \cup (IF r.node2 = None THEN {} ELSE {<<r.node2, r.axis2>>})

\* The axes of node n whose edge has its other end on node m, in network net.
AxesTo(net, n, m) ==
  {i \in DOMAIN net.edges[n] :
     LET r == net.edge_obj[net.edges[n][i]]
     IN r.node2 # None /\ {r.node1, r.node2} = {n, m}}

\* The number of non-dangling edges in the slots of node n.
NonDangling(net, n) == {i \in DOMAIN net.edges[n] : ~IsDangling(net, net.edges[n][i])}

\* The path has been executed to its end: no call raised and one ordinary
\* node is left.
PathDone == ret.op = "contract" /\ ~poisoned /\ Cardinality(NonCopy(nodes_set)) = 1

AllAxesDangling(n) == \A i \in DOMAIN edges[n] : edge_obj[edges[n][i]].node2 = None

-----------------------------------------------------------------------------
\* C1: once a valid contraction path has been executed to its end on a
\* connected network without trace edges, the node set holds exactly one
\* non-copy node and at most one copy node, and every axis of that copy node
\* is dangling.
C1_OneNodeLeft ==
  PathDone =>
    /\ Cardinality(NonCopy(nodes_set)) = 1
    /\ Cardinality(nodes_set \ NonCopy(nodes_set)) <= 1
    /\ \A c \in nodes_set : IsCopy(c) => AllAxesDangling(c)

-----------------------------------------------------------------------------
\* Where the k-th axis of the fused node comes from, read off the call's
\* output_edges: "node1" or "node2" for an axis whose edge sat on that node,
\* "copy" for an axis exposed by a shared copy node.
Origin(k) ==
  IF ret.output_edges[k][2] = ret.node1 THEN "node1"
  ELSE IF ret.output_edges[k][2] = ret.node2 THEN "node2"
  ELSE "copy"

\* The axis of node1 (node2) the k-th axis of the fused node stands for: the
\* node's own axis for a survivor, and for an axis exposed by a copy node the
\* axis of node1 that was attached to that copy node before the call.
Node1AxisOf(k) ==
  IF Origin(k) = "copy"
  THEN CHOOSE i \in AxesTo(ret.before, ret.node1, ret.output_edges[k][2]) : TRUE
  ELSE ret.output_edges[k][3]

\* C2 (as claimed): the axes of the fused node are the surviving axes of n1 in
\* their original order, then the surviving axes of n2 in their original
\* order, and only after those the axes exposed by shared copy nodes.
C2_CopyAxesLast ==
  Returned =>
    \A k, l \in DOMAIN ret.output_edges :
      k < l =>
        /\ Origin(k) = "copy" => Origin(l) = "copy"
        /\ Origin(k) = "node2" => Origin(l) # "node1"
        /\ (Origin(k) = Origin(l) /\ Origin(k) # "copy")
             => ret.output_edges[k][3] < ret.output_edges[l][3]

\* C2 (amended): the axes of the fused node follow node1's axes in their
\* original order, a surviving axis standing for itself and an axis attached
\* to a shared copy node being replaced, in place, by the axis that copy node
\* exposes (if any); then come the surviving axes of n2 in their original
\* order.
C2_AxisOrder ==
  Returned =>
    /\ Len(edges[ret.new_node]) = Len(ret.output_edges)
    /\ Len(ret.output_expr) = Len(ret.output_edges)
    /\ \A k \in DOMAIN ret.output_edges :
         Origin(k) = "copy" =>
           Cardinality(AxesTo(ret.before, ret.node1, ret.output_edges[k][2])) = 1
    /\ \A k, l \in DOMAIN ret.output_edges :
         k < l =>
           /\ Origin(k) = "node2" => Origin(l) = "node2"
           /\ (Origin(k) # "node2" /\ Origin(l) # "node2") => Node1AxisOf(k) < Node1AxisOf(l)
           /\ (Origin(k) = "node2" /\ Origin(l) = "node2")
                => ret.output_edges[k][3] < ret.output_edges[l][3]

\* A merge in which a copy node's exposed axis comes before a surviving axis.
C2_Witness ==
  /\ Returned
  /\ \E k, l \in DOMAIN ret.output_edges : k < l /\ Origin(k) = "copy" /\ Origin(l) # "copy"

-----------------------------------------------------------------------------
\* The shared copy nodes of the last call that had exactly two edges.
TwoEdgeCopies == {c \in ret.shared_copies : Len(ret.before.edges[c]) = 2}

\* The axis of node n that was attached to copy node c before the call.
AxisAt(n, c) == CHOOSE i \in AxesTo(ret.before, n, c) : TRUE

\* The network `net` without the two-edge copy node c between n1 and n2:
\* n1's and n2's axes that were attached to c are joined by one standard edge.
Bypass(net, c, n1, n2) ==
  LET a1 == CHOOSE i \in AxesTo(net, n1, c) : TRUE
      a2 == CHOOSE i \in AxesTo(net, n2, c) : TRUE
      e == Len(net.edge_obj) + 1
  IN [net EXCEPT !.nodes_set = @ \ {c},
                 !.edges = [@ EXCEPT ![c] = <<>>, ![n1][a1] = e, ![n2][a2] = e],
                 !.edge_obj = Append(@, [node1 |-> n1, axis1 |-> a1,
                                         node2 |-> n2, axis2 |-> a2])]

RECURSIVE BypassAll(_, _, _, _)
BypassAll(net, cs, n1, n2) ==
  IF cs = {} THEN net
  ELSE LET c == CHOOSE v \in cs : TRUE
       IN BypassAll(Bypass(net, c, n1, n2), cs \ {c}, n1, n2)

\* What the slots of the live nodes hold, edge identities left out.
Shape(net) ==
  [n \in net.nodes_set |->
     [i \in DOMAIN net.edges[n] |-> Endpoints(net.edge_obj[net.edges[n][i]])]]

\* The same merge on the network in which the two-edge copy nodes were never
\* there.
DirectMerge ==
  LET rest == ret.shared_copies \ TwoEdgeCopies
  IN ContractBetweenWithCopies(
       BypassAll(ret.before, TwoEdgeCopies, ret.node1, ret.node2),
       ret.node1, ret.node2, rest,
       SelectSeq(NodeOrder, LAMBDA n : n \in rest), ret.new_node)

PlanPlaces(plan) == [k \in DOMAIN plan |-> <<plan[k][2], plan[k][3]>>]

\* C3: a shared copy node with exactly two edges, one to axis a1 of n1 and one
\* to axis a2 of n2, is removed from the node set and from shared_copies, and
\* (n1,a1), (n2,a2) become the endpoints of one standard edge; the merge (when
\* the call returns) gives the same fused node - same labels, same plan, same
\* resulting network - as on the network where n1[a1] and n2[a2] were
\* connected directly.
C3_TwoEdgeCopyBypassed ==
  Returned =>
    /\ \A c \in TwoEdgeCopies :
         /\ c \notin nodes_set
         /\ c \notin ret.left_copies
         /\ Cardinality(AxesTo(ret.before, ret.node1, c)) = 1
         /\ Cardinality(AxesTo(ret.before, ret.node2, c)) = 1
         /\ \E e \in DOMAIN edge_obj :
              /\ e \notin DOMAIN ret.before.edge_obj
              /\ Endpoints(edge_obj[e]) = {<<ret.node1, AxisAt(ret.node1, c)>>,
                                          <<ret.node2, AxisAt(ret.node2, c)>>}
              /\ edges[ret.node1][AxisAt(ret.node1, c)] = e
              /\ edges[ret.node2][AxisAt(ret.node2, c)] = e
    /\ TwoEdgeCopies # {} =>
         /\ DirectMerge.raised = ""
         /\ DirectMerge.node1_expr = ret.node1_expr
         /\ DirectMerge.node2_expr = ret.node2_expr
         /\ DirectMerge.output_expr = ret.output_expr
         /\ PlanPlaces(DirectMerge.output_edges) = PlanPlaces(ret.output_edges)
         /\ Shape(DirectMerge.net) = Shape(Net)

\* A returned merge with a two-edge shared copy node next to a three-edge one.
C3_Witness ==
  /\ Returned
  /\ TwoEdgeCopies # {}
  /\ ret.shared_copies \ TwoEdgeCopies # {}

-----------------------------------------------------------------------------
\* C4: the pair contractor rejects a shared copy node (NotImplementedError)
\* only when that copy node has 0 or 1 non-dangling edges; shared copy nodes
\* with 2 edges or with 3 or more edges (e.g. rank 4) are contracted without
\* that error.
C4_RejectsOnlyFewEdges ==
  (ret.op = "contract" /\ ret.raised = "NotImplementedError") =>
    \E c \in ret.shared_copies : Cardinality(NonDangling(ret.before, c)) <= 1

-----------------------------------------------------------------------------
\* C5: after the call returns, for every node n of the node set and every axis
\* i of n, the edge held in slot i of n has (n, i) as one of its endpoints;
\* also when a dangling or third-party edge of a shared copy node was carried
\* onto the fused node.
C5_SlotsListTheirNode ==
  Returned =>
    \A n \in nodes_set : \A i \in DOMAIN edges[n] :
      <<n, i>> \in Endpoints(edge_obj[edges[n][i]])

\* A returned merge whose plan carried an edge of a shared copy node onto the
\* fused node, that edge being dangling or going to a third-party node.
C5_Witness ==
  /\ Returned
  /\ \E k \in DOMAIN ret.output_edges :
       /\ Origin(k) = "copy"
       /\ LET r == ret.before.edge_obj[ret.output_edges[k][1]]
          IN r.node2 = None \/ {r.node1, r.node2} \cap (Ordinary \ {ret.node1, ret.node2}) # {}

\* The nodes the last call took out of the node set: n1, n2 and the removed
\* copy nodes.
RemovedByCall == ret.before.nodes_set \ nodes_set

\* C6: after the call returns, n1 and n2 are disabled and out of the node set,
\* the fused node is in the node set, and no edge held in a slot of a node of
\* the node set has n1, n2 or a removed copy node as an endpoint.
C6_MergedNodesGone ==
  Returned =>
    /\ {ret.node1, ret.node2} \subseteq disabled
    /\ {ret.node1, ret.node2} \cap nodes_set = {}
    /\ {ret.node1, ret.node2} \subseteq RemovedByCall
    /\ ret.new_node \in nodes_set
    /\ \A n \in nodes_set : \A i \in DOMAIN edges[n] :
         \A p \in Endpoints(edge_obj[edges[n][i]]) : p[1] \notin RemovedByCall

\* A returned merge that removed a copy node and left a neighbour in the
\* network.
C6_Witness ==
  /\ Returned
  /\ RemovedByCall \cap CopyNodes # {}
  /\ nodes_set \ {ret.new_node} # {}

\* The labels the einsum expression gives to the axes of n1 and n2 that were
\* attached to copy node c.
LabelsAt(c) ==
  {ret.node1_expr[i] : i \in AxesTo(ret.before, ret.node1, c)} \cup
  {ret.node2_expr[i] : i \in AxesTo(ret.before, ret.node2, c)}

\* The labels of the axes of n1 and n2 that were not attached to copy node c.
LabelsAwayFrom(c) ==
  {ret.node1_expr[i] : i \in DOMAIN ret.node1_expr \ AxesTo(ret.before, ret.node1, c)} \cup
  {ret.node2_expr[i] : i \in DOMAIN ret.node2_expr \ AxesTo(ret.before, ret.node2, c)}

\* C7: for each shared copy node c left after the two-edge copies are
\* trivialized, every axis of n1 and n2 connected to c carries one single
\* label, whatever the split of c's edges between n1 and n2, and that label is
\* on no axis that does not touch c.
C7_OneLabelPerCopy ==
  Returned =>
    \A c \in ret.shared_copies \ TwoEdgeCopies :
      /\ Cardinality(LabelsAt(c)) = 1
      /\ LabelsAt(c) \cap LabelsAwayFrom(c) = {}

-----------------------------------------------------------------------------
\* The non-dangling edges in the slots of copy node c.
CopyEdges(c) == {edges[c][i] : i \in NonDangling(Net, c)}

\* C8: after find_copy_nodes returns edge_map, each copy node c of the node
\* set has a representative r_c among its non-dangling edges and edge_map maps
\* every non-dangling edge of c to r_c; also when two copy nodes are connected
\* to each other.
C8_OneRepresentative ==
  ret.op = "find_copy_nodes" =>
    \A c \in nodes_set \cap CopyNodes :
      CopyEdges(c) # {} =>
        \E r \in CopyEdges(c) : \A e \in CopyEdges(c) :
          e \in DOMAIN ret.edge_map /\ ret.edge_map[e] = r

\* The edges in the slots of the live nodes that are dangling.
DanglingEdges ==
  {e \in UNION {Range(edges[n]) : n \in nodes_set} : edge_obj[e].node2 = None}

\* The image of edge e under the edge_map the last get_path call was given.
EdgeMapImage(e) == IF e \in DOMAIN ret.edge_map THEN ret.edge_map[e] ELSE e

\* C9: get_path hands the optimizer an output_set equal to the set of all
\* dangling edges of the network, each replaced by its image under edge_map
\* when it has one, and holding no non-dangling edge; with and without an
\* edge_map argument.
C9_OutputSetDangling ==
  ret.op = "get_path" =>
    /\ ret.output_set = {EdgeMapImage(e) : e \in DanglingEdges}
    /\ \A e \in ret.output_set : edge_obj[e].node2 = None

\* get_path was called with the edge_map of find_copy_nodes on a network with
\* both dangling edges and copy-node edges.
C9_Witness ==
  /\ ret.op = "get_path"
  /\ ret.edge_map # <<>>
  /\ ret.output_set # {}
  /\ \E c \in nodes_set \cap CopyNodes : CopyEdges(c) # {}

\* The axis edge record r has on node n.
AxisOn(r, n) == IF r.node1 = n THEN r.axis1 ELSE r.axis2

\* C10: for a non-dangling edge e between `node` and another node m,
\* disconnect_copy_edge(net, e, node) returns (node_edge, copy_edge), both
\* dangling, node_edge attached to `node` at the axis e had on `node` and
\* copy_edge attached to m at the axis e had on m, whichever endpoint of e
\* held `node`.
C10_NodeEdgeFirst ==
  ret.op = "disconnect_copy_edge" =>
    LET r == ret.before.edge_obj[ret.edge]
        m == IF r.node1 = ret.node THEN r.node2 ELSE r.node1
    IN m # ret.node =>
         /\ ret.raised = ""
         /\ edge_obj[ret.edge_node] =
              [node1 |-> ret.node, axis1 |-> AxisOn(r, ret.node), node2 |-> None, axis2 |-> 0]
         /\ edge_obj[ret.edge_copy] =
              [node1 |-> m, axis1 |-> AxisOn(r, m), node2 |-> None, axis2 |-> 0]
         /\ edges[ret.node][AxisOn(r, ret.node)] = ret.edge_node
         /\ edges[m][AxisOn(r, m)] = ret.edge_copy

\* disconnect_copy_edge was called with `node` on the second endpoint of e.
C10_Witness ==
  /\ ret.op = "disconnect_copy_edge"
  /\ ret.before.edge_obj[ret.edge].node2 = ret.node
  /\ ret.before.edge_obj[ret.edge].node1 # ret.node

-----------------------------------------------------------------------------
\* The number of slots of copy node c whose edge does not go to node1 or node2.
OtherSlots(net, c, n1, n2) ==
  {i \in DOMAIN net.edges[c] :
     {net.edge_obj[net.edges[c][i]].node1, net.edge_obj[net.edges[c][i]].node2}
       \cap {n1, n2} = {}}

\* The node at the other end of the edge in slot i of node n (None if dangling).
PartnerOf(n, i) == OtherNode(edge_obj[edges[n][i]], n)

\* C11: after isolate_copy_node(net, copy, node1, node2) returns new_copy,
\* where copy had k1 edges to node1, k2 edges to node2 (k1 >= 0, k2 >= 0,
\* k1 + k2 >= 1) and at least one other edge: new_copy has rank k1 + k2 + 1,
\* every axis of node1 and node2 that was connected to copy is connected to
\* new_copy, copy keeps its other edges and has its rank reduced by
\* k1 + k2 - 1, and exactly one edge connects copy to new_copy.
C11_CopyIsolated ==
  (ret.op = "isolate_copy_node" /\ ret.raised = "") =>
    LET k1 == Cardinality(AxesTo(ret.before, ret.node1, ret.copy))
        k2 == Cardinality(AxesTo(ret.before, ret.node2, ret.copy))
        others == Cardinality(OtherSlots(ret.before, ret.copy, ret.node1, ret.node2))
    IN (k1 + k2 >= 1 /\ others >= 1) =>
         /\ Len(edges[ret.new_copy]) = k1 + k2 + 1
         /\ \A i \in AxesTo(ret.before, ret.node1, ret.copy) :
              PartnerOf(ret.node1, i) = ret.new_copy
         /\ \A i \in AxesTo(ret.before, ret.node2, ret.copy) :
              PartnerOf(ret.node2, i) = ret.new_copy
         /\ Len(edges[ret.copy]) = Len(ret.before.edges[ret.copy]) - (k1 + k2 - 1)
         /\ \A m \in ret.before.nodes_set \ {ret.copy, ret.node1, ret.node2} :
              AxesTo(Net, m, ret.copy) = AxesTo(ret.before, m, ret.copy)
         /\ Cardinality(AxesTo(Net, ret.new_copy, ret.copy)) = 1

=============================================================================
